---- MODULE Spec2Model ----
(***************************************************************************)
(* Model of mecoda_minka: get_obs and its helpers (_build_url, _request,   *)
(* the bucket path of get_obs), the normalizer _process_observation_data,  *)
(* _build_observations, the projector get_dfs with _get_taxon_columns,     *)
(* download_photos and get_dwc_from_query.                                 *)
(*                                                                         *)
(* A list of records is a sequence of segments [src |-> s, n |-> c]: the   *)
(* records 1..c of page (or bucket) s, in their order.  A slice [:k] of a  *)
(* list is TakeFirst.  No list built by the code holds an empty segment.    *)
(* A raw record is a function from its keys to values Val(type, content).  *)
(***************************************************************************)
EXTENDS Integers, Sequences, FiniteSets, TLC

\* ------------------------------------------------------------ constants
PER_PAGE == 200
MAX_PAGES == 50
SMALL_LIMIT == 10000
BUCKET_IDS == 10000
MAX_BATCHES == 20
BATCH_WORKERS == 6
DOWNLOAD_WORKERS == 5
DWC_RANGE_END == 50
BUILD_THRESHOLD == 100
BUILD_WORKERS == 4
PARALLEL_THRESHOLD == 500

\* ------------------------------------------------------------ bounds
\* The server holds full pages only up to this page number.
MaxServerPages == 3
\* _build_url is explored for every set of at most this many supplied filters.
MaxFilters == 3
\* Only the first DataBatches buckets of a bucket list hold records (or fail);
\* the id ranges of the others are empty on the server.
DataBatches == 2
\* Runs of at most this many pages have their normalization futures complete in
\* every order.
MaxRacePages == 4

\* How many buckets beyond MAX_BATCHES the widest id span of the wide server
\* implies.
WideSpan == 15

\* In the pool of _build_observations a record being normalized is overtaken
\* by at most this many records handed out after it.
MaxOvertake == 8

\* ------------------------------------------------------------ values
None == [some |-> FALSE, val |-> 0]
Some(x) == [some |-> TRUE, val |-> x]

\* Python truthiness of an Optional[int]: None and 0 are falsy.
Truthy(o) == o.some /\ o.val # 0

CeilDiv(a, b) == (a + b - 1) \div b

Min(a, b) == IF a <= b THEN a ELSE b

\* A word is its letters in lower case and, per letter, whether it is upper case.
Word(base, caps) == [base |-> base, caps |-> caps]

NoWord == Word("", <<>>)

\* str.title() on a single word: first letter upper case, the others lower case.
Title(w) == Word(w.base, [i \in 1..Len(w.caps) |-> i = 1])

\* models.TAXONS: every entry is one title-cased word (letters, length).
TaxonBases ==
  { <<"chromista", 9>>, <<"protozoa", 8>>, <<"animalia", 8>>, <<"mollusca", 8>>,
    <<"arachnida", 9>>, <<"insecta", 7>>, <<"aves", 4>>, <<"mammalia", 8>>,
    <<"amphibia", 8>>, <<"reptilia", 8>>, <<"actinopterygii", 14>>, <<"fungi", 5>>,
    <<"plantae", 7>>, <<"unknown", 7>>, <<"cnidaria", 8>>, <<"annelida", 8>>,
    <<"platyhelminthes", 15>>, <<"echinodermata", 13>>, <<"bryozoa", 7>>,
    <<"porifera", 8>>, <<"elasmobranchii", 14>>, <<"crustacea", 9>>,
    <<"ctenophora", 10>> }

TAXONS == { Word(t[1], [i \in 1..t[2] |-> i = 1]) : t \in TaxonBases }

\* ------------------------------------------------------------ errors
NoErr == [type |-> "none", msg |-> ""]
Err(t, m) == [type |-> t, msg |-> m]

\* ------------------------------------------------------------ lists
RECURSIVE TotalLen(_)
TotalLen(segs) ==
  IF segs = <<>> THEN 0 ELSE Head(segs).n + TotalLen(Tail(segs))

\* segs[:k] for k >= 0
RECURSIVE TakeFirst(_, _)
TakeFirst(segs, k) ==
  IF segs = <<>> \/ k <= 0 THEN <<>>
  ELSE IF Head(segs).n <= k
       THEN <<Head(segs)>> \o TakeFirst(Tail(segs), k - Head(segs).n)
       ELSE <<[src |-> Head(segs).src, n |-> k]>>

Seg(s, c) == [src |-> s, n |-> c]

\* ------------------------------------------------------------ _build_url
FilterNames ==
  { "id_obs", "id_project", "user", "created_on", "created_d1", "created_d2",
    "starts_on", "ends_on", "query", "place_id", "year", "taxon_id", "grade",
    "id_above", "id_below", "updated_since" }

If(c, s) == IF c THEN s ELSE <<>>

\* The query parameters of the URL in order, page size last.
\* sup: the filters given (not None); intro: "None", "true" or "false";
\* tx: the title-cased taxon, or NoWord when taxon is None.
UrlParams(sup, intro, tx) ==
     If("id_obs" \in sup, <<"id">>)
  \o If("id_project" \in sup,
        IF intro = "true" THEN <<"introduced", "project_id">> ELSE <<"project_id">>)
  \o If("user" \in sup, <<"user_login">>)
  \o If("created_on" \in sup, <<"created_on">>)
  \o If("created_d1" \in sup, <<"created_d1">>)
  \o If("created_d2" \in sup, <<"created_d2">>)
  \o If("starts_on" \in sup, <<"d1">>)
  \o If("ends_on" \in sup, <<"d2">>)
  \o If("query" \in sup, <<"q">>)
  \o If(tx # NoWord, <<"iconic_taxa">>)
  \o If("place_id" \in sup,
        IF intro = "true" THEN <<"introduced", "place_id">> ELSE <<"place_id">>)
  \o If("year" \in sup, <<"year">>)
  \o If("taxon_id" \in sup, <<"taxon_id">>)
  \o If("grade" \in sup, <<"quality_grade">>)
  \o If("id_above" \in sup, <<"id_above">>)
  \o If("id_below" \in sup, <<"id_below">>)
  \o If("updated_since" \in sup, <<"updated_since">>)
  \o <<"per_page">>

\* Mutant: the vocabulary is consulted only for a word already in title case.
TaxonRejectedIfTitled(tx) == tx # NoWord /\ tx = Title(tx) /\ tx \notin TAXONS

\* The taxon check of _build_url: the title-cased word must be in TAXONS.
TaxonRejected(tx) == tx # NoWord /\ Title(tx) \notin TAXONS


\* ------------------------------------------------------------ HTTP responses
\* One answer of the server: a network failure, or a status and a body.  The body
\* is JSON or not; a JSON body has a total_results field or not, and a results
\* list of n records or none.
NetErr ==
  [kind |-> "neterr", status |-> 0, json |-> FALSE,
   has_total |-> FALSE, total |-> 0, has_results |-> FALSE, n |-> 0]

Http(st, js, ht, t, hr, k) ==
  [kind |-> "http", status |-> st, json |-> js,
   has_total |-> ht, total |-> t, has_results |-> hr, n |-> k]

NoResp == [NetErr EXCEPT !.kind = "none"]

\* Record counts of one page the server may answer with.
PageLens == {0, 56, PER_PAGE}

\* total_results values the server may report.
Totals == {456, 900}

\* A total_results value above the limit of the sequential path.
LargeTotal == 25000

\* Answers to the first-page URL.
FirstPageResponses ==
  {NetErr}
  \cup { Http(st, FALSE, FALSE, 0, FALSE, 0) : st \in {200, 404, 500} }
  \cup { Http(st, TRUE, FALSE, 0, FALSE, 0) : st \in {200, 404, 500} }
  \cup { Http(200, TRUE, TRUE, t, FALSE, 0) : t \in Totals }
  \cup { Http(200, TRUE, FALSE, 0, TRUE, k) : k \in PageLens }
  \cup { Http(200, TRUE, TRUE, t, TRUE, k) : t \in Totals, k \in PageLens }
  \cup { Http(200, TRUE, TRUE, LargeTotal, TRUE, PER_PAGE) }

\* What a repeated request of the same URL may get instead of the same answer.
TransientFailures ==
  {NetErr, Http(404, FALSE, FALSE, 0, FALSE, 0), Http(500, FALSE, FALSE, 0, FALSE, 0)}

\* Outcome of the fetch of one later page: a failure kind, or a page of n records.
PageOutcome(k, c) == [kind |-> k, n |-> c]

NoOutcome == PageOutcome("none", 0)

PageOutcomes(p) ==
  { PageOutcome(k, 0) : k \in {"neterr", "status", "noresults"} }
  \cup { PageOutcome("results", 56) }
  \cup (IF p <= MaxServerPages THEN { PageOutcome("results", PER_PAGE) } ELSE {})

\* The answers to the first-page URL per server.  The bounded server holds
\* full pages up to page MaxServerPages; the endless one answers every page with
\* a full page; the corrupt one is a bounded one whose pages may hold a record
\* that cannot be normalized; the wide one holds more than 10,000 records
\* whose ids span any range; the flaky one holds at most 10,000 records and
\* answers any page with a full page, a short one or a failure.
ServerFirstPage(sv) ==
  IF sv = "flaky"
  THEN { r \in FirstPageResponses : r.total <= SMALL_LIMIT }
       \cup { Http(200, TRUE, TRUE, SMALL_LIMIT, TRUE, PER_PAGE) }
  ELSE IF sv = "wide"
  THEN { Http(200, TRUE, TRUE, LargeTotal, TRUE, PER_PAGE) }
  ELSE IF sv = "endless"
  THEN { Http(200, TRUE, TRUE, t, TRUE, PER_PAGE) : t \in {SMALL_LIMIT, LargeTotal} }
  ELSE IF sv = "corrupt"
  THEN { Http(200, TRUE, TRUE, t, TRUE, k) : t \in Totals, k \in {56, PER_PAGE} }
  ELSE FirstPageResponses

ServerPageOutcomes(sv, p) ==
  IF sv = "endless" THEN { PageOutcome("results", PER_PAGE) }
  ELSE IF sv = "flaky" THEN PageOutcomes(p) \cup { PageOutcome("results", PER_PAGE) }
  ELSE PageOutcomes(p)

\* ------------------------------------------------------------ JSON values
\* A value of a raw record or of a normalized one: its type and its content.  A
\* string is the sequence of its tokens (so that replace, split, strip and join
\* are computed), an int or a date its token, a list its items; an object (dict)
\* lists the members the code reads, "" for a member that is missing.
Val(t, v) == [t |-> t, v |-> v]

Null == Val("null", <<>>)
Str(toks) == Val("str", toks)
Num(tok) == Val("int", <<tok>>)
List(items) == Val("list", items)
Dict(members) == Val("dict", members)

\* Python truthiness: None, "", 0, [] and {} are falsy.
TruthyVal(x) == x.t # "null" /\ x.v # <<>> /\ x # Num("0")

\* A dict is a function from its keys; d.get(k) and d[k] = x.
NoDict == [k \in {} |-> Null]
Get(d, k) == IF k \in DOMAIN d THEN d[k] ELSE Null
Put(d, k, x) == [f \in DOMAIN d \cup {k} |-> IF f = k THEN x ELSE d[f]]

\* str.replace(a, b), token by token.
Replace(toks, a, b) == [i \in DOMAIN toks |-> IF toks[i] = a THEN b ELSE toks[i]]

\* str.strip(): leading and trailing blanks dropped.
RECURSIVE StripLeft(_)
StripLeft(toks) ==
  IF toks # <<>> /\ Head(toks) = " " THEN StripLeft(Tail(toks)) ELSE toks

RECURSIVE StripRight(_)
StripRight(toks) ==
  IF toks # <<>> /\ toks[Len(toks)] = " "
  THEN StripRight(SubSeq(toks, 1, Len(toks) - 1)) ELSE toks

Strip(toks) == StripRight(StripLeft(toks))

\* sep.join(items)
RECURSIVE Join(_, _)
Join(items, sep) ==
  IF items = <<>> THEN <<>>
  ELSE IF Len(items) = 1 THEN <<items[1]>>
  ELSE <<Head(items), sep>> \o Join(Tail(items), sep)

\* s.split(sep): the tokens between the separators, joined token runs kept whole.
SplitTokens(toks, sep) == SelectSeq(toks, LAMBDA x : x # sep)

\* The tokens that are a date (%Y-%m-%d), a time (%H:%M:%S), a UTC offset, and
\* the tokens int() parses.
DateTokens == {"2016-07-06", "2016-07-11"}
TimeTokens == {"16:10:39"}
OffsetTokens == {"+02:00"}
NumericTokens == {"1", "2", "3", "4", "10", "118", "372", "98441"}

\* ------------------------------------------------------------ models.Observation
\* The fields of the pydantic model Observation (models.py lines 85-110).
ObservationFields ==
  { "id", "captive", "created_at", "updated_at", "observed_on", "time_observed_at",
    "description", "iconic_taxon", "taxon_id", "taxon_name", "taxon_rank",
    "taxon_ancestry", "latitude", "longitude", "obscured", "place_name",
    "quality_grade", "user_id", "user_login", "license_obs", "photos",
    "identifications_count", "identificators", "num_identification_agreements",
    "num_identification_disagreements" }

DateTimeFields == {"created_at", "updated_at", "time_observed_at"}

\* The default of a field that is not given: None, [] for photos.
FieldDefault(f) == IF f = "photos" THEN List(<<>>) ELSE Null

\* pydantic's own parsing of a datetime field: None and datetime are taken, an
\* ISO string with or without offset is parsed.
ValidDateTime(x) ==
  \/ x.t \in {"null", "datetime"}
  \/ /\ x.t = "str" /\ Len(x.v) \in {3, 4}
     /\ x.v[1] \in DateTokens /\ x.v[2] = "T" /\ x.v[3] \in TimeTokens
     /\ Len(x.v) = 4 => x.v[4] \in OffsetTokens

\* pydantic's own parsing of a date field.
ValidDate(x) ==
  \/ x.t \in {"null", "date"}
  \/ x.t = "str" /\ Len(x.v) = 1 /\ x.v[1] \in DateTokens

\* The value the model stores for field f given x.
Coerce(f, x) ==
  IF f \in DateTimeFields /\ x.t = "str"
  THEN Val("datetime", SelectSeq(x.v, LAMBDA tok : tok # "T"))
  ELSE IF f = "observed_on" /\ x.t = "str" THEN Val("date", x.v)
  ELSE x

\* Observation(**d): the validation error, NoErr when d is valid.  id is
\* required and an int; the date fields must be or parse as dates.
ValidationError(d) ==
  IF Get(d, "id").t # "int" THEN Err("ValidationError", "id")
  ELSE IF \E f \in DateTimeFields : ~ValidDateTime(Get(d, f))
  THEN Err("ValidationError", "datetime")
  ELSE IF ~ValidDate(Get(d, "observed_on")) THEN Err("ValidationError", "date")
  ELSE NoErr

\* Observation(**d) for a valid d: the model's fields only; keys of d that are
\* no field of the model are ignored.
MakeObservation(d) ==
  [f \in ObservationFields |-> IF f \in DOMAIN d THEN Coerce(f, d[f]) ELSE FieldDefault(f)]

\* The mark of a key that a dict does not hold.
Absent == Val("absent", <<>>)

NoObs == [f \in ObservationFields |-> Absent]

\* What a call of _process_observation_data ended in, and the dict it leaves.
Returned(o, d) == [kind |-> "returned", obs |-> o, err |-> NoErr, data |-> d]
Raised(e, d) == [kind |-> "raised", obs |-> NoObs, err |-> e, data |-> d]
NoResult == [kind |-> "none", obs |-> NoObs, err |-> NoErr, data |-> NoDict]

\* ------------------------------------------------------------ _process_observation_data
\* strptime(s, "%Y-%m-%d %H:%M:%S") succeeds.
ParsesDateTime(toks) ==
  Len(toks) = 3 /\ toks[1] \in DateTokens /\ toks[2] = " " /\ toks[3] \in TimeTokens

\* Lines 352-361 for one field: a truthy value that parses is replaced by the
\* datetime; any exception is swallowed and the value stays.
NormDateTime(d, f) ==
  LET x == Get(d, f)
      toks == Replace(x.v, "T", " ")
  IN IF TruthyVal(x) /\ x.t = "str" /\ ParsesDateTime(toks)
     THEN Put(d, f, Val("datetime", <<toks[1], toks[3]>>))
     ELSE d

\* Lines 363-375.
NormObservedOn(d) ==
  LET x == Get(d, "observed_on")
      toks == Replace(x.v, "T", " ")
  IN IF ~(TruthyVal(x) /\ x.t = "str") THEN d
     ELSE IF \E i \in DOMAIN x.v : x.v[i] = "T"
     THEN IF ParsesDateTime(toks) THEN Put(d, "observed_on", Val("date", <<toks[1]>>))
          ELSE d
     ELSE IF Len(x.v) = 1 /\ x.v[1] \in DateTokens
     THEN Put(d, "observed_on", Val("date", x.v))
     ELSE d

\* Lines 384-385.
NormDevice(d) ==
  IF "oauth_application_id" \in DOMAIN d
  THEN Put(d, "device",
           IF d["oauth_application_id"] = Num("2") THEN Str(<<"app">>) ELSE Str(<<"web">>))
  ELSE d

\* Lines 388-390.
NormPlace(d) ==
  LET x == Get(d, "place_guess")
  IN IF x # Null THEN Put(d, "place_name", Str(Strip(Replace(x.v, "\r\n", " "))))
     ELSE d

\* Lines 352-390.
BeforeTaxon(d) ==
  NormPlace(NormDevice(NormObservedOn(
    NormDateTime(NormDateTime(d, "created_at"), "updated_at"))))

\* A member of an object, None when it is missing.
Member(tok) == IF tok = "" THEN Null ELSE Str(<<tok>>)

\* Lines 393-395: the exception the taxon block raises, NoErr when it raises
\* none.  There is no try around these lines: a truthy value that is no object
\* has no get, and int() of an id that is no number raises ValueError.
TaxonError(d) ==
  LET t == Get(d, "taxon")
  IN IF ~TruthyVal(t) THEN NoErr
     ELSE IF t.t # "dict" THEN Err("AttributeError", "object has no attribute get")
     ELSE IF t.v[1] # "" /\ t.v[1] \notin NumericTokens
     THEN Err("ValueError", "invalid literal for int()")
     ELSE NoErr

\* Lines 393-398 when nothing is raised.
NormTaxon(d) ==
  LET t == Get(d, "taxon")
  IN IF ~TruthyVal(t) THEN d
     ELSE Put(Put(Put(Put(d,
            "taxon_id", IF t.v[1] = "" THEN Null ELSE Num(t.v[1])),
            "taxon_name", Member(t.v[2])),
            "taxon_rank", Member(t.v[3])),
            "taxon_ancestry", Member(t.v[4]))

\* Lines 447-450.
NormUser(d) ==
  LET u == Get(d, "user")
  IN IF ~TruthyVal(u) THEN d
     ELSE Put(Put(d, "user_id", IF u.v[1] = "" THEN Null ELSE Num(u.v[1])),
              "user_login", Member(u.v[2]))

\* Lines 461-468: the logins of the entries that have one, joined by ", ".
NormIdentifications(d) ==
  LET ids == Get(d, "identifications")
      logins == SelectSeq(ids.v, LAMBDA l : l # "")
  IN IF ~TruthyVal(ids) THEN d
     ELSE Put(d, "identifiers",
              IF logins # <<>> THEN Str(Join(logins, ", ")) ELSE Null)

\* _process_observation_data (lines 347-470) on the dict d, which it updates in
\* place: what it returns or raises, and the dict as the call leaves it.
ProcessObservationData(d) ==
  LET d1 == BeforeTaxon(d)
      d2 == NormIdentifications(NormUser(NormTaxon(d1)))
  IN IF TaxonError(d1) # NoErr THEN Raised(TaxonError(d1), d1)
     ELSE IF ValidationError(d2) # NoErr THEN Raised(ValidationError(d2), d2)
     ELSE Returned(MakeObservation(d2), d2)

\* ------------------------------------------------------------ get_dfs
\* Rows of get_dfs are explored for lists of at most this many observations.
MaxRows == 2

\* A table: its column names and its rows.
Frame(cols, rows) == [columns |-> cols, rows |-> rows]
NoFrame == Frame({}, <<>>)

\* Lines 614-644, 646-658 (and 853-865), 780-804, 877.
EmptyObsColumns ==
  { "id", "created_at", "updated_at", "observed_on", "observed_on_time",
    "iconic_taxon", "taxon_id", "taxon_rank", "taxon_name", "latitude", "longitude",
    "obscured", "place_name", "quality_grade", "user_id", "user_login",
    "license_obs", "identifications_count", "identifiers",
    "num_identification_agreements", "num_identification_disagreements",
    "taxon_ancestry", "device", "kingdom", "phylum", "class", "order", "family",
    "genus" }

EmptyPhotosColumns ==
  { "id", "photos_id", "iconic_taxon", "taxon_name", "photos_medium_url",
    "user_login", "latitude", "longitude", "license_photo", "attribution", "path" }

DesiredColumns ==
  { "id", "created_at", "updated_at", "observed_on", "observed_on_time",
    "iconic_taxon", "taxon_id", "taxon_rank", "taxon_name", "latitude", "longitude",
    "obscured", "place_name", "quality_grade", "user_id", "user_login",
    "license_obs", "identifications_count", "identifiers",
    "num_identification_agreements", "num_identification_disagreements",
    "taxon_ancestry", "device" }

TaxonomicLevels == { "kingdom", "phylum", "class", "order", "family", "genus" }

\* Lines 693-737 and 833: the columns of a photos table built from photo rows.
PhotoRowColumns ==
  { "id", "iconic_taxon", "taxon_name", "user_login", "latitude", "longitude",
    "photos_id", "photos_medium_url", "license_photo", "attribution", "path" }

\* Lines 672-681: the columns of the frame built from the __dict__ of the
\* observations, which holds the fields of the model.
DictColumns == ObservationFields \cup {"taxon_id"}

\* Lines 741-777: photos is dropped, time_observed_at becomes observed_on_time.
ObservationColumns ==
  LET c == DictColumns \ {"photos"}
  IN IF "time_observed_at" \in c
     THEN (c \cup {"observed_on_time"}) \ {"time_observed_at"} ELSE c

\* Lines 806-810: the desired columns the frame has.
SelectColumns(c) == IF DesiredColumns \cap c # {} THEN DesiredColumns \cap c ELSE c

\* Lines 873-879 and 924: _get_taxon_columns adds the rank columns and drops
\* taxon_ancestry.
TaxonColumns(c) ==
  IF "taxon_ancestry" \in c THEN (c \cup TaxonomicLevels) \ {"taxon_ancestry"} ELSE c

\* Lines 884-887: the lookup built from the rows of df_taxon; of the rows with
\* the same taxon_id the first is kept.
ToLookup(df_taxon) ==
  [ k \in { df_taxon[i].taxon_id : i \in DOMAIN df_taxon } |->
      LET i == CHOOSE i \in DOMAIN df_taxon :
                 /\ df_taxon[i].taxon_id = k
                 /\ \A j \in DOMAIN df_taxon : df_taxon[j].taxon_id = k => i <= j
      IN [rank |-> df_taxon[i].rank, taxon_name |-> df_taxon[i].taxon_name] ]

\* The attribute _taxon_lookup: not set, or the lookup it holds.
NoLookup == [set |-> FALSE, table |-> ToLookup(<<>>)]
CachedLookup(table) == [set |-> TRUE, table |-> table]

\* Lines 882-889: the lookup is built from df_taxon only when the function has
\* no _taxon_lookup attribute yet; otherwise the attribute is used as it is.
LookupFor(cache, df_taxon) ==
  IF ~cache.set THEN CachedLookup(ToLookup(df_taxon)) ELSE cache

\* Lines 903-904: the id parses as an int, is not the root 1, and is in the
\* lookup.
IsAncestor(id, lookup) == id \in NumericTokens /\ id # "1" /\ id \in DOMAIN lookup

AllNone == [l \in TaxonomicLevels |-> Null]

\* Lines 901-911 over the ids left.
RECURSIVE ExpandIds(_, _, _)
ExpandIds(ids, lookup, res) ==
  IF ids = <<>> THEN res
  ELSE LET id == Head(ids)
           next == IF IsAncestor(id, lookup) /\ lookup[id].rank \in TaxonomicLevels
                   THEN [res EXCEPT ![lookup[id].rank] = Str(<<lookup[id].taxon_name>>)]
                   ELSE res
       IN ExpandIds(Tail(ids), lookup, next)

\* extract_taxon_info_vectorized (lines 892-914).
ExtractTaxonInfo(ancestry, lookup) ==
  IF ~TruthyVal(ancestry) \/ ancestry.t # "str" THEN AllNone
  ELSE ExpandIds(SplitTokens(ancestry.v, "/"), lookup, AllNone)

\* sort_values(by="id", ascending=False) (lines 814 and 849).
RECURSIVE SortByIdDesc(_)
SortByIdDesc(rows) ==
  IF rows = <<>> THEN <<>>
  ELSE LET m == CHOOSE i \in DOMAIN rows :
                  \A j \in DOMAIN rows :
                    rows[j].id < rows[i].id \/ (rows[j].id = rows[i].id /\ i <= j)
       IN <<rows[m]>> \o SortByIdDesc(SubSeq(rows, 1, m - 1) \o SubSeq(rows, m + 1, Len(rows)))

\* The row of the observations table for the observation o: its id and its
\* rank columns.
ObservationRow(o, lookup) ==
  [id |-> o.id, ranks |-> ExtractTaxonInfo(o.taxon_ancestry, lookup)]

MapRows(rows, lookup) == [i \in DOMAIN rows |-> ObservationRow(rows[i], lookup)]

\* Lines 687-738 and 829-839: one row per observation and photo, with the frame's
\* index label; the path is <id>_<photo id>.jpg, None for a photo without id.
RECURSIVE PhotoRows(_, _)
PhotoRows(observations, label) ==
  IF observations = <<>> THEN <<>>
  ELSE LET o == Head(observations)
       IN [ k \in DOMAIN o.photos |->
              [label |-> label + k - 1, id |-> o.id, photos_id |-> o.photos[k],
               path |-> IF o.photos[k] # ""
                        THEN Str(<<ToString(o.id), "_", o.photos[k], ".jpg">>)
                        ELSE Null] ]
          \o PhotoRows(Tail(observations), label + Len(o.photos))

\* get_dfs (lines 607-868): the two tables.
DfObservations(observations, cache, df_taxon) ==
  IF observations = <<>> THEN Frame(EmptyObsColumns, <<>>)
  ELSE Frame(TaxonColumns(SelectColumns(ObservationColumns)),
             MapRows(SortByIdDesc(observations), LookupFor(cache, df_taxon).table))

DfPhotos(observations) ==
  IF PhotoRows(observations, 0) = <<>> THEN Frame(EmptyPhotosColumns, <<>>)
  ELSE Frame(PhotoRowColumns, SortByIdDesc(PhotoRows(observations, 0)))

NoDfsCall == [made |-> FALSE, observations |-> <<>>, df_taxon |-> <<>>]

\* ------------------------------------------------------------ download_photos
\* download_photos is explored for photos tables of at most this many rows.
MaxPhotoRows == 6

\* successful_downloads: a dict from index labels to booleans.
NoDownloads == [l \in {} |-> FALSE]

\* Line 1027: successful_downloads[idx] = success.
RecordDownload(sd, idx, success) ==
  [l \in DOMAIN sd \cup {idx} |-> IF l = idx THEN success ELSE sd[l]]

\* What the download of one row ends in: the file is written, or the request
\* fails or its status is an error (lines 1004-1005) and no file is opened.
DownloadOutcomes == {"ok", "http_error"}

\* Lines 1007 and 1034: the path components of f"{directorio}/{row['path']}",
\* and its absolute path.
FilePath(row) == <<"minka_photos", "/">> \o row.path.v
AbsPath(row) == Str(<<"cwd", "/">> \o FilePath(row))

\* Mutant: the row gets its absolute path as soon as its download was recorded,
\* whatever the recorded flag.
AbsPathIfRecorded(sd, row) ==
  IF row.label \in DOMAIN sd THEN AbsPath(row) ELSE Null

\* Lines 1032-1038: the abs_path of a row: its absolute path when
\* successful_downloads.get(row.name, False) holds, else None.
AbsPathOf(sd, row) ==
  IF row.label \in DOMAIN sd /\ sd[row.label] THEN AbsPath(row) ELSE Null

\* ------------------------------------------------------------ get_dwc_from_query
\* Pages of the Darwin Core endpoint hold at most this many records in the model.
MaxDwcPageLen == 2

\* What the endpoint holds for a query: pages 1..pages parse, every page but
\* the last with size records and the last with last records; any further
\* page has no record and read_xml raises on it.
DwcServers ==
  { [pages |-> m, size |-> s, last |-> l] :
      m \in 0..DWC_RANGE_END, s \in 1..MaxDwcPageLen, l \in 1..MaxDwcPageLen }
NoDwcServer == [pages |-> 0, size |-> 0, last |-> 0]

\* Line 1123: the records read_xml parses from page i, 0 when it raises.
DwcPageLen(sv, i) ==
  IF i < sv.pages THEN sv.size ELSE IF i = sv.pages THEN sv.last ELSE 0

\* What get_dwc_from_query ends in: kind is "returned" or "raised"; the value
\* returned is None or a table, whose institutionCode and datasetName were
\* rewritten when cleaned.
NoDwcResult == [kind |-> "none", table |-> <<>>, isNone |-> TRUE, cleaned |-> FALSE]
DwcReturned(tb, none, cl) ==
  [kind |-> "returned", table |-> tb, isNone |-> none, cleaned |-> cl]

\* Lines 1130-1139: the except branch of the loop.
DwcExcept(tb) ==
  IF TotalLen(tb) > 1 THEN DwcReturned(tb, FALSE, TRUE)
  ELSE DwcReturned(<<>>, TRUE, FALSE)

\* ------------------------------------------------------------ _build_observations
\* A raw list: n records, record i with id i; shape[i] tells what is wrong with
\* record i, for the positions that hold a record that cannot be normalized.
RawList(n, shape) == [n |-> n, shape |-> shape]
NoRawList == RawList(0, <<>>)

\* Record i of the list: a well-formed record, one whose taxon id is no number
\* (int() raises ValueError), or one without id (Observation(**data) raises
\* ValidationError).
RawRecord(l, i) ==
  LET sh == IF i \in DOMAIN l.shape THEN l.shape[i] ELSE "good"
  IN [k \in {"id"} \ (IF sh = "noid" THEN {"id"} ELSE {}) |-> Num(ToString(i))]
     @@ [k \in {"created_at"} |-> Str(<<"2016-07-11", "T", "16:10:39">>)]
     @@ [k \in {"taxon"} |->
           Dict(<<IF sh = "badtaxon" THEN "abc" ELSE "372", "Amphipoda", "order",
                  "1/2/10/118">>)]
     @@ [k \in {"user"} |-> Dict(<<"4", "xasalva">>)]

\* What _build_observations ends in.
NoBuildResult == [kind |-> "none", obs |-> <<>>, err |-> NoErr]
BuildReturned(obs) == [kind |-> "returned", obs |-> obs, err |-> NoErr]
BuildRaised(e) == [kind |-> "raised", obs |-> <<>>, err |-> e]

\* The list of the normalized records at the positions `out`, in that order.
NormalizedAt(l, out) ==
  [j \in DOMAIN out |-> ProcessObservationData(RawRecord(l, out[j])).obs]

\* Mutant: results are taken as the workers complete them (as_completed).
NextToCollectAsCompleted(out, finished) ==
  finished \ { out[j] : j \in DOMAIN out }

\* Lines 480-482: list(executor.map(...)) takes the results in the order of the
\* input, waiting for the next one; the positions it can take now, given the
\* positions whose normalization has finished.
NextToCollect(out, finished) == {Len(out) + 1} \cap finished

\* ------------------------------------------------------------ state
VARIABLES
  taxon,        \* the taxon argument: a word, or NoWord for None
  supplied,     \* the other filters given (not None)
  introduced,   \* "None", "true" or "false"
  id_above,     \* Optional int, Some iff "id_above" \in supplied
  num_max,      \* Optional int
  pc,           \* position of the get_obs call
  url,          \* the query parameters of the built URL
  err,          \* the exception get_obs raised
  nreq,         \* HTTP requests issued so far
  counter,      \* _observation_counter._count
  page1,        \* the server's answer to the first-page URL (the probe's answer)
  total_obs,    \* Optional int read by the probe
  first,        \* the answer _request got to its first request
  all_results,  \* _request: raw pages collected
  page_num,     \* _request: next page number
  total_pages_needed,
  lastFetch,    \* outcome of the latest later-page fetch
  pending,      \* pages whose normalization future has not been consumed
  observations, \* the list being built and returned
  last_id, first_id,
  batch_urls,   \* sequence of [n, above, below]
  bstate,       \* per batch: "queued", "running", "done", "merged"
  bres,         \* per batch: [ok, n] the outcome of its fetch
  server,       \* which server answers: "bounded", "endless" or "corrupt"
  bad,          \* page numbers whose raw page holds a record that cannot be normalized
  printed,      \* kinds of messages the sequential _request call printed
  raw,          \* _process_observation_data: the raw record as the caller built it
  data,         \* the caller's dict, which the function works on
  result,       \* what the call returned or raised, and the dict it worked on
  taxon_lookup,     \* the function attribute _get_taxon_columns._taxon_lookup
  dfs_call,         \* the arguments of the latest get_dfs call
  df_observations,  \* the observations table it returned
  df_photos,        \* the photos table it returned
  dl_pc,            \* download_photos: "idle", "pool" or "done"
  dl_rows,          \* the rows of the photos table it is given
  dl_files,         \* the files of the download directory
  dl_state,         \* per row: "queued", "running", "finished", "recorded"
  dl_outcome,       \* per row: "none", "ok", "http_error"
  successful_downloads,
  abs_path,         \* per row: the abs_path column
  dwc_server,       \* get_dwc_from_query: what the Darwin Core endpoint holds
  dwc_pc,           \* position of the get_dwc_from_query call
  dwc_page,         \* the loop variable i
  df_total,         \* the records accumulated so far
  dwc_result,       \* what the call returned or raised
  bo_list,          \* _build_observations: the raw list it was called with
  bo_pc,            \* position of the _build_observations call
  bo_started,       \* records handed to a worker so far
  bo_unfinished,    \* records a worker is normalizing
  bo_out,           \* positions of the records collected so far, in order
  bo_result         \* what the call returned or raised

argVars == <<taxon, supplied, introduced, id_above, num_max>>
reqVars == <<first, all_results, page_num, total_pages_needed, lastFetch, pending>>
batchVars == <<last_id, first_id, batch_urls, bstate, bres>>
normVars == <<raw, data, result>>
dfsVars == <<taxon_lookup, dfs_call, df_observations, df_photos>>
photoVars == <<dl_pc, dl_rows, dl_files, dl_state, dl_outcome, successful_downloads,
               abs_path>>
dwcVars == <<dwc_server, dwc_pc, dwc_page, df_total, dwc_result>>
buildVars == <<bo_list, bo_pc, bo_started, bo_unfinished, bo_out, bo_result>>
libVars == <<normVars, dfsVars, photoVars, dwcVars, buildVars>>
callVars == <<argVars, pc, url, err, nreq, counter, page1, total_obs, reqVars,
              observations, batchVars, server, bad, printed>>
vars == <<callVars, libVars>>

\* ------------------------------------------------------------ inputs
Lower(b, k) == Word(b, [i \in 1..k |-> FALSE])
Upper(b, k) == Word(b, [i \in 1..k |-> TRUE])

TaxonInputs ==
  { NoWord, Lower("fungi", 5), Title(Lower("fungi", 5)), Upper("fungi", 5),
    Lower("inexistente", 11), Title(Lower("inexistente", 11)) }

NumMaxInputs == { None, Some(0), Some(10), Some(600), Some(10001) }

IdAboveValue == 25000

\* _process_observation_data has not been called.
NormIdle ==
  /\ raw = NoDict
  /\ data = NoDict
  /\ result = NoResult

\* get_dfs has not been called: _get_taxon_columns has no _taxon_lookup yet.
DfsIdle ==
  /\ taxon_lookup = NoLookup
  /\ dfs_call = NoDfsCall
  /\ df_observations = NoFrame
  /\ df_photos = NoFrame

\* download_photos has not been called.
PhotosIdle ==
  /\ dl_pc = "idle"
  /\ dl_rows = <<>>
  /\ dl_files = {}
  /\ dl_state = <<>>
  /\ dl_outcome = <<>>
  /\ successful_downloads = NoDownloads
  /\ abs_path = <<>>

\* get_dwc_from_query has not been called.
DwcIdle ==
  /\ dwc_server = NoDwcServer
  /\ dwc_pc = "idle"
  /\ dwc_page = 0
  /\ df_total = <<>>
  /\ dwc_result = NoDwcResult

\* _build_observations has not been called on its own.
BuildIdle ==
  /\ bo_list = NoRawList
  /\ bo_pc = "idle"
  /\ bo_started = 0
  /\ bo_unfinished = {}
  /\ bo_out = <<>>
  /\ bo_result = NoBuildResult

\* No call of the functions other than get_obs has been made.
LibIdle == NormIdle /\ DfsIdle /\ PhotosIdle /\ DwcIdle /\ BuildIdle

\* No call of get_obs has been made: its arguments are at their defaults.
ArgsIdle ==
  /\ server = "bounded"
  /\ taxon = NoWord
  /\ supplied = {}
  /\ introduced = "None"
  /\ id_above = None
  /\ num_max = None

\* get_obs has been called and nothing has run yet.
CallIdle ==
  /\ pc = "start"
  /\ url = <<>>
  /\ err = NoErr
  /\ nreq = 0
  /\ counter = 0
  /\ page1 = NoResp
  /\ total_obs = None
  /\ first = NoResp
  /\ all_results = <<>>
  /\ page_num = 0
  /\ total_pages_needed = 0
  /\ lastFetch = NoOutcome
  /\ pending = {}
  /\ observations = <<>>
  /\ last_id = None
  /\ first_id = None
  /\ batch_urls = <<>>
  /\ bstate = <<>>
  /\ bres = <<>>
  /\ bad = {}
  /\ printed = {}

InitCall == CallIdle /\ LibIdle

\* Calls of get_obs: every taxon input with a small num_max, and every num_max
\* input without a taxon.
Init ==
  /\ InitCall
  /\ server = "bounded"
  /\ supplied = {}
  /\ introduced = "None"
  /\ id_above = None
  /\ \/ taxon \in TaxonInputs /\ num_max = Some(10)
     \/ taxon = NoWord /\ num_max \in NumMaxInputs

\* Calls of _build_url: every set of at most MaxFilters filters, with every value
\* of the introduced flag and every taxon input.
InitUrl ==
  /\ InitCall
  /\ server = "bounded"
  /\ supplied \in { s \in SUBSET FilterNames : Cardinality(s) <= MaxFilters }
  /\ introduced \in {"None", "true", "false"}
  /\ id_above = IF "id_above" \in supplied THEN Some(IdAboveValue) ELSE None
  /\ taxon \in {NoWord, Lower("fungi", 5), Lower("inexistente", 11)}
  /\ num_max = None

\* ------------------------------------------------------------ get_obs: URL
\* get_obs lines 136-160: reset the counter, build the URL; _build_url raises
\* ValueError on a taxon outside TAXONS.
GetObsBuildUrl ==
  /\ pc = "start"
  /\ counter' = 0
  /\ IF TaxonRejected(taxon)
     THEN /\ pc' = "raised"
          /\ err' = Err("ValueError", "Not a valid taxonomy")
          /\ url' = url
     ELSE /\ pc' = "probe"
          /\ err' = err
          /\ url' = UrlParams(supplied, introduced,
                              IF taxon = NoWord THEN NoWord ELSE Title(taxon))
  /\ UNCHANGED <<libVars, server, bad, printed, argVars, nreq, page1, total_obs, reqVars, observations, batchVars>>

\* ------------------------------------------------------------ get_obs: probe
\* Mutant: num_max is tested for truth, so that num_max = 0 counts as absent.
SmallPathTruthy(total, nmax) ==
  total <= SMALL_LIMIT \/ (Truthy(nmax) /\ nmax.val <= SMALL_LIMIT)

\* get_obs line 176: which path the call takes.
SmallPath(total, nmax) == total <= SMALL_LIMIT \/ (nmax.some /\ nmax.val <= SMALL_LIMIT)

Raise(e) ==
  /\ pc' = "raised"
  /\ err' = e

\* get_obs lines 166-174: the exceptions session.get(url).json()["total_results"]
\* ends in for the answer r (none when the set is empty).  The status of the
\* answer is not looked at.  A body that is not JSON raises requests'
\* JSONDecodeError, which is a RequestException (caught by the first clause) in
\* current versions of requests and only a ValueError in older ones.
ProbeErrors(r) ==
  IF r.kind = "neterr" THEN { Err("Exception", "Network error") }
  ELSE IF ~r.json
  THEN { Err("Exception", "Network error"), Err("Exception", "Invalid JSON response") }
  ELSE IF ~r.has_total THEN { Err("Exception", "Not valid parameters") }
  ELSE {}

\* get_obs lines 166-180: the probe and the choice of the path.
GetObsProbe ==
  /\ pc = "probe"
  /\ \E r \in ServerFirstPage(server) :
       /\ page1' = r
       /\ nreq' = nreq + 1
       /\ IF ProbeErrors(r) # {}
          THEN /\ \E e \in ProbeErrors(r) : Raise(e)
               /\ total_obs' = total_obs
          ELSE /\ total_obs' = Some(r.total)
               /\ pc' = IF SmallPath(r.total, num_max) THEN "request" ELSE "boundaries"
               /\ err' = err
  /\ UNCHANGED <<libVars, server, bad, printed, argVars, url, counter, reqVars, observations, batchVars>>

\* ------------------------------------------------------------ _request
\* _request lines 526-529.
PagesNeeded(nmax, total_results) ==
  IF Truthy(nmax) THEN Min(MAX_PAGES, CeilDiv(nmax.val, PER_PAGE))
  ELSE Min(MAX_PAGES, CeilDiv(total_results, PER_PAGE))

\* _build_observations on one raw page of c records from source s.
BuildObservations(s, c) == IF c = 0 THEN <<>> ELSE <<Seg(s, c)>>

\* _request lines 534-535.
LimitFirstPage(obs, nmax) == IF Truthy(nmax) THEN TakeFirst(obs, nmax.val) ELSE obs

\* _request lines 597-598.
ApplyLimit(obs, nmax) ==
  IF Truthy(nmax) /\ TotalLen(obs) > nmax.val THEN TakeFirst(obs, nmax.val) ELSE obs

\* Mutant: the loop runs one page past the pages needed and has no page ceiling.
LoopCondNoCeiling(results, pn, needed) == Len(results) < needed + 1

\* _request line 543: the condition of the paging loop.
LoopCond(results, pn, needed) == Len(results) < needed /\ pn <= MAX_PAGES

\* _request line 577: pages are normalized by a worker pool and merged as they
\* complete.
ParallelNormalize(results) == TotalLen(results) > PARALLEL_THRESHOLD

\* The exceptions the normalization of a record may end in: pydantic's
\* ValidationError (a ValueError) for a record without id, the ValueError of
\* int() for a taxon id that is no number, an AttributeError for a record or a
\* taxon block that is no object.
NormalizeErrors ==
  { Err("ValidationError", "id field required"),
    Err("ValueError", "invalid literal for int()"),
    Err("AttributeError", "object has no attribute get") }

\* except ValueError (line 602) catches ValueError and its subclasses.
IsValueError(e) == e.type \in {"ValueError", "ValidationError"}

\* Whether a raw page of n records may hold a record that cannot be normalized.
BadChoices(sv, n) == IF sv = "corrupt" /\ n > 0 THEN BOOLEAN ELSE {FALSE}

\* _request returns obs, having printed pr.
Return(obs, pr) ==
  /\ pc' = "done"
  /\ observations' = obs
  /\ err' = err
  /\ printed' = pr

\* _build_observations raises inside the try block of _request (lines 533 and
\* 594): a ValueError is caught at line 602 and [] is returned, any other
\* exception leaves _request and get_obs.
NormalizeFailure(pr) ==
  \E e \in NormalizeErrors :
    IF IsValueError(e)
    THEN Return(<<>>, pr \cup {"Error:"})
    ELSE /\ Raise(e)
         /\ observations' = observations
         /\ printed' = pr

\* Mutant: a page request that fails is fatal, the call raises instead of
\* returning the pages fetched before it.
LeaveLoopPageFailureFatal(results, badp, pr) ==
  IF lastFetch'.kind \in {"neterr", "status", "noresults"}
  THEN /\ Raise(Err("RequestException", "page"))
       /\ pending' = {}
       /\ observations' = observations
       /\ printed' = pr
  ELSE IF ParallelNormalize(results)
  THEN /\ pc' = "merge_pages"
       /\ pending' = 1..Len(results)
       /\ observations' = <<>>
       /\ err' = err
       /\ printed' = pr
  ELSE /\ pending' = {}
       /\ IF \E i \in DOMAIN results : results[i].src \in badp
          THEN NormalizeFailure(pr)
          ELSE Return(ApplyLimit(results, num_max), pr)

\* _request lines 575-600, entered when the paging loop is left with the pages
\* `results` (those of `badp` holding a bad record) having printed pr: small
\* results are normalized in page order and returned at once, large ones wait
\* for their futures (pc "merge_pages").
LeaveLoop(results, badp, pr) ==
  IF ParallelNormalize(results)
  THEN /\ pc' = "merge_pages"
       /\ pending' = 1..Len(results)
       /\ observations' = <<>>
       /\ err' = err
       /\ printed' = pr
  ELSE /\ pending' = {}
       /\ IF \E i \in DOMAIN results : results[i].src \in badp
          THEN NormalizeFailure(pr)
          ELSE Return(ApplyLimit(results, num_max), pr)

\* _request lines 509-543 called by get_obs line 177: the first request (the
\* same URL as the probe), the checks on it, and the entry of the paging loop.
RequestFirst ==
  /\ pc = "request"
  /\ \E r \in {page1} \cup TransientFailures :
       /\ first' = r
       /\ nreq' = nreq + 1
       /\ IF r.kind = "neterr"
          THEN /\ Raise(Err("RequestException", "network"))
               /\ UNCHANGED <<all_results, page_num, total_pages_needed, pending,
                              observations, bad, printed>>
          ELSE IF r.status = 404
          THEN /\ Raise(Err("ValueError", "Not found"))
               /\ UNCHANGED <<all_results, page_num, total_pages_needed, pending,
                              observations, bad, printed>>
          ELSE IF r.status # 200
          THEN /\ Raise(Err("ValueError", "HTTP error"))
               /\ UNCHANGED <<all_results, page_num, total_pages_needed, pending,
                              observations, bad, printed>>
          ELSE IF ~r.json \/ ~r.has_results
          THEN \* ValueError raised inside the try and caught at line 602
               /\ Return(<<>>, printed \cup {"Error:"})
               /\ UNCHANGED <<all_results, page_num, total_pages_needed, pending, bad>>
          ELSE \E b \in BadChoices(server, r.n) :
               LET needed == PagesNeeded(num_max, IF r.has_total THEN r.total ELSE r.n)
                   page == BuildObservations(1, r.n)
                   badp == IF b THEN {1} ELSE {}
               IN /\ total_pages_needed' = needed
                  /\ bad' = badp
                  /\ IF r.n < PER_PAGE \/ needed = 1
                     THEN /\ IF b THEN NormalizeFailure(printed)
                               ELSE Return(LimitFirstPage(page, num_max),
                                           printed \cup {"Number of elements:"})
                          /\ UNCHANGED <<all_results, page_num, pending>>
                     ELSE /\ all_results' = page
                          /\ page_num' = 2
                          /\ IF LoopCond(page, 2, needed)
                             THEN /\ pc' = "paging"
                                  /\ UNCHANGED <<err, pending, observations, printed>>
                             ELSE LeaveLoop(page, badp, printed)
  /\ UNCHANGED <<libVars, server, argVars, url, counter, page1, total_obs, lastFetch, batchVars>>

\* _request lines 543-573: one turn of the paging loop.
RequestPage ==
  /\ pc = "paging"
  /\ \E o \in ServerPageOutcomes(server, page_num) :
       /\ lastFetch' = o
       /\ nreq' = nreq + 1
       /\ IF o.kind # "results"
          THEN /\ LeaveLoop(all_results, bad,
                            IF o.kind = "neterr"
                            THEN printed \cup {"Error fetching page"} ELSE printed)
               /\ UNCHANGED <<all_results, page_num, bad>>
          ELSE \E b \in BadChoices(server, o.n) :
               LET results == Append(all_results, Seg(page_num, o.n))
                   badp == IF b THEN bad \cup {page_num} ELSE bad
                   pr == printed \cup {"Number of elements:"}
               IN /\ all_results' = results
                  /\ bad' = badp
                  /\ IF \/ o.n < PER_PAGE
                        \/ (Truthy(num_max) /\ TotalLen(results) >= num_max.val)
                     THEN /\ LeaveLoop(results, badp, pr)
                          /\ page_num' = page_num
                     ELSE /\ page_num' = page_num + 1
                          /\ IF LoopCond(results, page_num + 1, total_pages_needed)
                             THEN /\ pc' = "paging"
                                  /\ printed' = pr
                                  /\ UNCHANGED <<err, pending, observations>>
                             ELSE LeaveLoop(results, badp, pr)
  /\ UNCHANGED <<libVars, server, argVars, url, counter, page1, total_obs, first,
                 total_pages_needed, batchVars>>

\* The futures as_completed may hand over next.  Runs of at most MaxRacePages
\* pages are explored in every completion order; in longer runs any page may
\* complete first and the others follow in submission order.
MergeCandidates(pend, n) ==
  IF n <= MaxRacePages \/ Cardinality(pend) = n THEN pend
  ELSE { i \in pend : \A j \in pend : i <= j }

\* _request lines 585-600: as_completed hands over the page whose future
\* completed next, whichever it is; a page whose normalization raised is
\* reported and skipped; after the last one the limit is applied.
RequestMergePage ==
  /\ pc = "merge_pages"
  /\ \E i \in MergeCandidates(pending, Len(all_results)) :
       LET failed == all_results[i].src \in bad
           obs == IF failed THEN observations ELSE observations \o <<all_results[i]>>
       IN /\ pending' = pending \ {i}
          /\ printed' = IF failed THEN printed \cup {"Error processing observations:"}
                        ELSE printed
          /\ IF pending = {i}
             THEN /\ observations' = ApplyLimit(obs, num_max)
                  /\ pc' = "done"
             ELSE /\ observations' = obs
                  /\ pc' = pc
  /\ UNCHANGED <<libVars, server, bad, argVars, url, err, nreq, counter, page1, total_obs,
                 first, all_results, page_num, total_pages_needed, lastFetch, batchVars>>

\* ------------------------------------------------------------ get_obs: buckets
\* Answers of the two boundary lookups (fetch_boundary_id): an id, or None on
\* any failure or empty result.
LastIdAnswers == { None, Some(15000), Some(50001) }

FirstIdAnswers == { None, Some(12000), Some(80000) }

\* Outcome of the _request call of one bucket: it raises (a network exception or
\* a non-200 status of its first request), it meets a malformed answer (and
\* returns []), or it returns n records.  ok tells that the bucket succeeded.
BatchOutcome(k, c) == [kind |-> k, ok |-> k = "records", n |-> c]

BatchOutcomes(i) ==
  IF i <= DataBatches
  THEN { BatchOutcome("raises", 0), BatchOutcome("malformed", 0),
         BatchOutcome("records", 6000) }
  ELSE { BatchOutcome("records", 0) }

NoOutcomeYet == BatchOutcome("none", 0)

\* The ids the wide server may answer the boundary lookups with: around the
\* edges of a bucket, and far enough apart to imply more than MAX_BATCHES
\* buckets.
WideIds ==
  { 1, BUCKET_IDS - 1, BUCKET_IDS, BUCKET_IDS + 1, IdAboveValue,
    MAX_BATCHES * BUCKET_IDS - 1, MAX_BATCHES * BUCKET_IDS,
    MAX_BATCHES * BUCKET_IDS + 1, (MAX_BATCHES + WideSpan) * BUCKET_IDS }

LastIdsOf(sv) ==
  IF sv = "wide" THEN {None} \cup { Some(i) : i \in WideIds } ELSE LastIdAnswers

FirstIdsOf(sv) ==
  IF sv = "wide" THEN {None} \cup { Some(i) : i \in WideIds } ELSE FirstIdAnswers

\* Mutant: id_below is the last id of the bucket itself, which as an exclusive
\* bound leaves that id in no bucket.
RECURSIVE BatchRangeInclusive(_, _)
BatchRangeInclusive(a, b) ==
  IF a >= b THEN <<>>
  ELSE <<[n |-> a, above |-> a * BUCKET_IDS, below |-> (a + 1) * BUCKET_IDS]>>
       \o BatchRangeInclusive(a + 1, b)

\* get_obs lines 212-223: the buckets generated from the boundary ids.
RECURSIVE BatchRange(_, _)
BatchRange(a, b) ==
  IF a >= b THEN <<>>
  ELSE <<[n |-> a, above |-> a * BUCKET_IDS, below |-> (a + 1) * BUCKET_IDS + 1]>>
       \o BatchRange(a + 1, b)

\* Mutant: one bucket per 10,000 ids of the whole span, without the ceiling.
BatchUrlsUncapped(last, firstOpt) ==
  LET limit == CeilDiv(last, BUCKET_IDS)
      start == (IF Truthy(firstOpt) THEN firstOpt.val ELSE 0) \div BUCKET_IDS
  IN BatchRange(start, limit + 1)

BatchUrls(last, firstOpt) ==
  LET limit == CeilDiv(last, BUCKET_IDS)
      start == (IF Truthy(firstOpt) THEN firstOpt.val ELSE 0) \div BUCKET_IDS
  IN BatchRange(start, Min(limit + 1, start + MAX_BATCHES))

\* get_obs lines 182-223 and 242-246: the boundary lookups, the buckets, and the
\* submission of every bucket to the pool.  With id_above given there is no
\* lookup of the first id.  An empty bucket list makes the pool's constructor
\* raise (max_workers = 0).
GetObsBoundaries ==
  /\ pc = "boundaries"
  /\ \E la \in LastIdsOf(server), fa \in FirstIdsOf(server) :
       LET fi == IF id_above.some THEN id_above ELSE fa
       IN /\ id_above.some => fa = None
          /\ last_id' = la
          /\ first_id' = fi
          /\ nreq' = nreq + (IF id_above.some THEN 1 ELSE 2)
          /\ IF ~Truthy(la)
             THEN /\ Raise(Err("Exception", "Could not determine data boundaries"))
                  /\ UNCHANGED <<batch_urls, bstate, bres>>
             ELSE LET urls == BatchUrls(la.val, fi)
                  IN /\ batch_urls' = urls
                     /\ IF urls = <<>>
                        THEN /\ Raise(Err("ValueError", "max_workers must be greater than 0"))
                             /\ UNCHANGED <<bstate, bres>>
                        ELSE /\ pc' = "batches"
                             /\ err' = err
                             /\ bstate' = [i \in 1..Len(urls) |-> "queued"]
                             /\ bres' = [i \in 1..Len(urls) |-> NoOutcomeYet]
  /\ UNCHANGED <<libVars, server, bad, printed, argVars, url, counter, page1, total_obs, reqVars, observations>>

Running == { i \in DOMAIN bstate : bstate[i] = "running" }

Unfinished == { i \in DOMAIN bstate : bstate[i] \in {"queued", "running"} }

\* The pool of get_obs line 243: a free worker takes the oldest queued bucket.
\* Nothing but the queue and the number of workers decides when a fetch starts.
CanStart(i) ==
  /\ bstate[i] = "queued"
  /\ \A j \in 1..(i - 1) : bstate[j] # "queued"
  /\ Cardinality(Running) < Min(BATCH_WORKERS, Len(batch_urls))

\* fetch_batch starts (line 229): the first request of the bucket is sent.
BatchStart(i) ==
  /\ pc \in {"batches", "shutdown"}
  /\ CanStart(i)
  /\ bstate' = [bstate EXCEPT ![i] = "running"]
  /\ nreq' = nreq + 1
  /\ UNCHANGED <<libVars, server, bad, printed, argVars, pc, url, err, counter, page1, total_obs, reqVars,
                 observations, last_id, first_id, batch_urls, bres>>

\* fetch_batch lines 228-240: what the fetch of a bucket hands to its future.
\* An exception of _request is caught and gives []; otherwise the list _request
\* returned, which is [] for a malformed answer.
FetchBatchResult(i, o) ==
  IF o.kind = "raises" THEN <<>>
  ELSE IF o.kind = "malformed" THEN <<>>
  ELSE BuildObservations(batch_urls[i].n, o.n)

\* fetch_batch ends (lines 229-240): a failure is caught and gives [].
BatchFinish(i) ==
  /\ pc \in {"batches", "shutdown"}
  /\ bstate[i] = "running"
  /\ \E o \in BatchOutcomes(i) :
       /\ bres' = [bres EXCEPT ![i] = o]
       /\ counter' = counter + TotalLen(FetchBatchResult(i, o))
  /\ bstate' = [bstate EXCEPT ![i] = "done"]
  /\ UNCHANGED <<libVars, server, bad, printed, argVars, pc, url, err, nreq, page1, total_obs, reqVars,
                 observations, last_id, first_id, batch_urls>>

\* Mutant: the merged list is replaced by the bucket's list instead of extended.
AssignObservations(obs, batch) == batch

\* get_obs lines 251-252.
ExtendObservations(obs, batch) == IF batch # <<>> THEN obs \o batch ELSE obs

\* get_obs lines 254-255.
EnoughObservations(obs, nmax) == Truthy(nmax) /\ TotalLen(obs) >= nmax.val

\* get_obs lines 260-261.
FinalLimit(obs, nmax) ==
  IF Truthy(nmax) /\ TotalLen(obs) > nmax.val THEN TakeFirst(obs, nmax.val) ELSE obs

\* get_obs lines 248-261: the main thread takes a completed future, whichever
\* completed, and merges it.  After the last future, or on the early break once
\* nothing is queued or running, it leaves the pool and applies the limit.
BatchMerge(i) ==
  /\ pc = "batches"
  /\ bstate[i] = "done"
  /\ LET obs == ExtendObservations(observations, FetchBatchResult(i, bres[i]))
         st == [bstate EXCEPT ![i] = "merged"]
     IN /\ bstate' = st
        /\ IF \A j \in DOMAIN st : st[j] = "merged"
           THEN /\ observations' = FinalLimit(obs, num_max)
                /\ pc' = "done"
           ELSE /\ observations' = obs
                /\ pc' = IF EnoughObservations(obs, num_max) THEN "shutdown" ELSE pc
  /\ UNCHANGED <<libVars, server, bad, printed, argVars, url, err, nreq, counter, page1, total_obs, reqVars,
                 last_id, first_id, batch_urls, bres>>

\* get_obs lines 243 (leaving the with block) and 259-265 after the early break:
\* the pool is shut down waiting for every submitted bucket, queued ones
\* included; then the limit is applied.
GetObsShutdown ==
  /\ pc = "shutdown"
  /\ Unfinished = {}
  /\ observations' = FinalLimit(observations, num_max)
  /\ pc' = "done"
  /\ UNCHANGED <<libVars, server, bad, printed, argVars, url, err, nreq, counter, page1, total_obs, reqVars, batchVars>>

\* ------------------------------------------------------------ specifications
Next ==
  \/ GetObsBuildUrl
  \/ GetObsProbe
  \/ RequestFirst
  \/ RequestPage
  \/ RequestMergePage
  \/ GetObsBoundaries
  \/ \E i \in DOMAIN bstate : BatchStart(i)
  \/ \E i \in DOMAIN bstate : BatchFinish(i)
  \/ \E i \in DOMAIN bstate : BatchMerge(i)
  \/ GetObsShutdown

Spec == Init /\ [][Next]_vars

\* _build_url alone, over every combination of filters.
NextUrl == GetObsBuildUrl

SpecUrl == InitUrl /\ [][NextUrl]_vars

\* get_obs without filters against the server that never runs out of full
\* pages.
InitDeep ==
  /\ InitCall
  /\ server = "endless"
  /\ supplied = {}
  /\ introduced = "None"
  /\ id_above = None
  /\ taxon = NoWord
  /\ num_max \in NumMaxInputs

SpecDeep == InitDeep /\ [][Next]_vars

\* get_obs without filters against the server whose pages may hold a record
\* that cannot be normalized.
InitCorrupt ==
  /\ InitCall
  /\ server = "corrupt"
  /\ supplied = {}
  /\ introduced = "None"
  /\ id_above = None
  /\ taxon = NoWord
  /\ num_max \in {None, Some(600)}

NextCorrupt ==
  \/ GetObsBuildUrl
  \/ GetObsProbe
  \/ RequestFirst
  \/ RequestPage
  \/ RequestMergePage

SpecCorrupt == InitCorrupt /\ [][NextCorrupt]_vars

\* ------------------------------------------------------------ claims
\* The raw pages one _request run fetched, in request order.
FetchedPages ==
  IF all_results # <<>> THEN all_results
  ELSE IF first.kind = "http" /\ first.status = 200 /\ first.json /\ first.has_results
       THEN BuildObservations(1, first.n)
       ELSE <<>>

\* The run was a sequential one whose pages were k >= 1 full pages 1..k followed
\* by one shorter page k+1, with a total_results covering all of them.
FullPagesThenShort ==
  /\ total_obs.some /\ SmallPath(total_obs.val, num_max)
  /\ Len(all_results) >= 2
  /\ \A i \in 1..Len(all_results) :
       /\ all_results[i].src = i
       /\ (i < Len(all_results) => all_results[i].n = PER_PAGE)
  /\ all_results[Len(all_results)].n < PER_PAGE
  /\ first.has_total /\ first.total >= TotalLen(all_results)

\* C1: a sequential retrieval without num_max over k full pages and a final
\* shorter page returns exactly the concatenation of the pages in request order,
\* whatever the total size.
C1_SequentialConcatenation ==
  (pc = "done" /\ num_max = None /\ FullPagesThenShort) => observations = all_results

\* C2: with num_max >= 1 and pages holding at least num_max records, get_obs
\* returns exactly the first num_max records of the page-order concatenation.
C2_FirstNumMaxInPageOrder ==
  (/\ pc = "done"
   /\ num_max.some /\ num_max.val >= 1
   /\ total_obs.some /\ SmallPath(total_obs.val, num_max)
   /\ TotalLen(FetchedPages) >= num_max.val)
  => observations = TakeFirst(FetchedPages, num_max.val)

\* C3: whenever num_max is given (0 included), the returned list has at most
\* num_max records.
C3_AtMostNumMax ==
  (pc = "done" /\ num_max.some) => TotalLen(observations) <= num_max.val

\* The word matches no entry of TAXONS, letter case ignored.
OutsideVocabulary(w) == w # NoWord /\ \A t \in TAXONS : t.base # w.base

\* C4: a taxon outside the vocabulary makes get_obs raise ValueError before any
\* HTTP request is issued: no request is ever sent on such a call.
C4_InvalidTaxonNoRequest ==
  OutsideVocabulary(taxon) =>
    /\ nreq = 0
    /\ pc \in {"start", "raised"}
    /\ pc = "raised" => err = Err("ValueError", "Not a valid taxonomy")

C4_Witness ==
  /\ pc = "raised"
  /\ OutsideVocabulary(taxon)
  /\ err = Err("ValueError", "Not a valid taxonomy")
  /\ nreq = 0

\* The query parameter that carries each filter.
ParamOf(f) ==
  CASE f = "id_obs" -> "id"
    [] f = "id_project" -> "project_id"
    [] f = "user" -> "user_login"
    [] f = "starts_on" -> "d1"
    [] f = "ends_on" -> "d2"
    [] f = "query" -> "q"
    [] f = "grade" -> "quality_grade"
    [] f = "taxon" -> "iconic_taxa"
    [] OTHER -> f

\* Every filter the call supplied.
SuppliedFilters ==
  supplied
  \cup (IF taxon # NoWord THEN {"taxon"} ELSE {})
  \cup (IF introduced # "None" THEN {"introduced"} ELSE {})

Occurrences(key, params) == Cardinality({ i \in DOMAIN params : params[i] = key })

\* C5: the built URL holds exactly one occurrence of the parameter of each
\* supplied filter (the introduced flag included), no parameter of a filter not
\* supplied, and per_page.
C5_OneParamPerFilter ==
  pc = "probe" =>
    /\ \A f \in SuppliedFilters : Occurrences(ParamOf(f), url) = 1
    /\ \A i \in DOMAIN url :
         url[i] = "per_page" \/ \E f \in SuppliedFilters : url[i] = ParamOf(f)
    /\ Occurrences("per_page", url) = 1

\* C6: a 404 answer to the probe makes the call fail, with an error that no
\* other failure of the probe (another status, a network failure, a body that
\* is not JSON) ends in.
C6_Probe404Distinct ==
  (page1.kind = "http" /\ page1.status = 404) =>
    /\ pc = "raised"
    /\ \A r \in FirstPageResponses :
         (r.kind = "neterr" \/ r.status # 404) => err \notin ProbeErrors(r)

\* The first-page answer is HTTP 200 with a JSON body lacking results or
\* total_results, and _request got that same answer.
FirstPageLacksField ==
  /\ page1.kind = "http" /\ page1.status = 200 /\ page1.json
  /\ ~page1.has_results \/ ~page1.has_total
  /\ first \in {NoResp, page1}

\* C7: a first-page answer lacking results or total_results makes get_obs fail;
\* it never returns (an empty list).
C7_MissingFieldRaises ==
  (FirstPageLacksField /\ pc \in {"done", "raised"}) => pc = "raised"

\* C8: once the probe has succeeded, get_obs never raises.
C8_NoRaiseAfterProbe ==
  total_obs.some => pc # "raised"

C10_NoStartAfterCap ==
  [][ \A i \in DOMAIN bstate :
        (bstate[i] = "queued" /\ bstate'[i] = "running")
          => ~EnoughObservations(observations, num_max) ]_vars

\* The call took the sequential path and _request returned.
SequentialDone ==
  pc = "done" /\ batch_urls = <<>> /\ first.kind = "http"

\* The records the page ceiling allows.
CeilingRecords == MAX_PAGES * PER_PAGE

StoppedAtCeiling ==
  /\ SequentialDone
  /\ Len(all_results) = MAX_PAGES
  /\ all_results[MAX_PAGES].n = PER_PAGE
  /\ ~(Truthy(num_max) /\ TotalLen(all_results) >= num_max.val)

\* The kinds of printed messages that tell the user that data was cut off.
TruncationWarnings == {"Warning: results truncated"}

\* C12: whenever paging stopped at the page ceiling with a full last page, a
\* truncation warning has been emitted by the time the call returns.
C12_CeilingWarns ==
  StoppedAtCeiling => printed \cap TruncationWarnings # {}

\* How many records of raw page p the list obs holds.
RecordsFrom(p, obs) == TotalLen(SelectSeq(obs, LAMBDA s : s.src = p))

\* C13: when a fetched page holds one record whose normalization fails, get_obs
\* (without num_max) does not raise and returns every other record: all records
\* of the pages without such a record, and all but one of each page with one.
C13_OnlyBadRecordLost ==
  (server = "corrupt" /\ bad # {} /\ num_max = None /\ pc \in {"done", "raised"}) =>
    /\ pc = "done"
    /\ \A i \in DOMAIN FetchedPages :
         RecordsFrom(FetchedPages[i].src, observations) =
           FetchedPages[i].n - (IF FetchedPages[i].src \in bad THEN 1 ELSE 0)

\* ------------------------------------------------------------ normalizer calls
\* The raw records _process_observation_data is called with: per key, the
\* shapes its value takes (Absent: the key is missing).
IdShapes == { Num("98441"), Absent }

NaiveStamp == Str(<<"2016-07-11", "T", "16:10:39">>)
OffsetStamp == Str(<<"2016-07-11", "T", "16:10:39", "+02:00">>)
GarbageStamp == Str(<<"yesterday">>)

CreatedShapes == { Absent, NaiveStamp, OffsetStamp, GarbageStamp }
UpdatedShapes == { NaiveStamp, GarbageStamp }
ObservedShapes == { Absent, Str(<<"2016-07-06">>), NaiveStamp, GarbageStamp }
OauthShapes == { Absent, Num("2"), Num("3") }
PlaceShapes == { Absent, Str(<<" ", "Girona", "\r\n", "Spain">>) }

\* The taxon block: missing, {}, a full object, an object without id, rank and
\* ancestry, an object whose id is no number, a string, a list.
TaxonShapes ==
  { Absent, Dict(<<>>),
    Dict(<<"372", "Amphipoda", "order", "1/2/10/118">>),
    Dict(<<"", "Amphipoda", "", "">>),
    Dict(<<"abc", "Amphipoda", "order", "1/2/10/118">>),
    Str(<<"Amphipoda">>), List(<<"372">>) }

UserShapes == { Absent, Dict(<<"4", "xasalva">>) }

\* The identifications list: the login of each entry, "" for an entry without.
IdentificationShapes ==
  { Absent, List(<<>>), List(<<"">>), List(<<"xasalva">>),
    List(<<"xasalva", "", "ramonservitje">>) }

\* The dict holding the keys of c whose value is not Absent.
MakeRaw(c) == [k \in { k \in DOMAIN c : c[k] # Absent } |-> c[k]]

InitNorm ==
  /\ CallIdle /\ ArgsIdle /\ DfsIdle /\ PhotosIdle /\ DwcIdle /\ BuildIdle
  /\ \E i \in IdShapes, c \in CreatedShapes, u \in UpdatedShapes, o \in ObservedShapes,
        a \in OauthShapes, p \in PlaceShapes, t \in TaxonShapes, w \in UserShapes,
        ids \in IdentificationShapes :
       raw = MakeRaw([id |-> i, created_at |-> c, updated_at |-> u, observed_on |-> o,
                      oauth_application_id |-> a, place_guess |-> p, taxon |-> t,
                      user |-> w, identifications |-> ids,
                      quality_grade |-> Str(<<"research">>)])
  /\ data = raw
  /\ result = NoResult

\* One call _process_observation_data(data).
ProcessCall ==
  /\ result = NoResult
  /\ raw # NoDict
  /\ result' = ProcessObservationData(data)
  /\ data' = ProcessObservationData(data).data
  /\ UNCHANGED <<callVars, raw, dfsVars, photoVars, dwcVars, buildVars>>

NextNorm == ProcessCall

SpecNorm == InitNorm /\ [][NextNorm]_vars

\* The record has an int id; none of its date values is an unparsable string;
\* its taxon block is malformed: a value that is no object, or an object whose
\* id is no number.
GoodId(d) == Get(d, "id").t = "int"

DateKeys == {"created_at", "updated_at", "observed_on"}

GoodDates(d) == \A f \in DateKeys : Get(d, f) # GarbageStamp

MalformedTaxon(d) ==
  LET t == Get(d, "taxon")
  IN /\ TruthyVal(t)
     /\ IF t.t = "dict" THEN t.v[1] # "" /\ t.v[1] \notin NumericTokens ELSE TRUE

TaxonFields == {"taxon_id", "taxon_name", "taxon_rank", "taxon_ancestry"}

\* C14: for a raw record whose taxon block is malformed (and that is valid
\* otherwise), _process_observation_data does not raise and returns a record
\* whose four taxon fields are all null.
C14_MalformedTaxonAllNull ==
  (result.kind # "none" /\ MalformedTaxon(raw) /\ GoodId(raw) /\ GoodDates(raw)) =>
    /\ result.kind = "returned"
    /\ \A f \in TaxonFields : result.obs[f] = Null

\* C15: for a raw record one of whose date values is an unparsable string (and
\* that is valid otherwise), _process_observation_data returns a record with
\* that field null and the id populated; it does not fail.
C15_UnparsableDateNull ==
  (/\ result.kind # "none"
   /\ GoodId(raw) /\ ~MalformedTaxon(raw)
   /\ \E f \in DateKeys : Get(raw, f) = GarbageStamp) =>
    /\ result.kind = "returned"
    /\ \A f \in DateKeys : Get(raw, f) = GarbageStamp => result.obs[f] = Null
    /\ result.obs["id"] = raw["id"]

\* C16: after the call the caller's dict holds exactly the keys and values it
\* held before the call.
C16_ArgumentUntouched ==
  result.kind # "none" => data = raw

\* The logins of the identifications of the raw record d, in list order.
Logins(d) == SelectSeq(Get(d, "identifications").v, LAMBDA l : l # "")

\* C17: for a raw record with an identifications list, the Observation returned
\* has an identifiers value: the logins joined by a comma in list order, null
\* when there is none.
C17_IdentifiersCarried ==
  (result.kind = "returned" /\ "identifications" \in DOMAIN raw) =>
    /\ "identifiers" \in DOMAIN result.obs
    /\ result.obs["identifiers"] \in
         (IF Logins(raw) # <<>>
          THEN { Str(Join(Logins(raw), ", ")), Str(Join(Logins(raw), ",")) }
          ELSE { Null })

\* ------------------------------------------------------------ get_dfs calls
\* The ancestry of an observation: None, the path of the test, the root alone,
\* a path with a piece that is no number.
AncestryShapes ==
  { Null, Str(<<"1", "/", "2", "/", "10", "/", "118">>), Str(<<"1">>),
    Str(<<"x", "/", "118">>) }

\* The photos of an observation, by photo id ("" for a photo without id).
PhotoShapes == { <<>>, <<"119257">>, <<"">> }

\* The observation lists get_dfs is called with: at most MaxRows observations
\* with distinct ids.
ObsLists ==
  UNION { { l \in [1..n -> [id : 1..MaxRows, taxon_ancestry : AncestryShapes,
                            photos : PhotoShapes]] :
              \A i, j \in 1..n : i # j => l[i].id # l[j].id } : n \in 0..MaxRows }

TaxonRow(id, rank, name) == [taxon_id |-> id, rank |-> rank, taxon_name |-> name]

\* Two taxonomy tables that map the same ids differently.  Each has a row for
\* the root id 1, and the first a second row for id 118.
TaxonTable1 ==
  << TaxonRow("1", "kingdom", "Life"), TaxonRow("2", "kingdom", "Animalia"),
     TaxonRow("10", "phylum", "Arthropoda"), TaxonRow("118", "class", "Malacostraca"),
     TaxonRow("118", "class", "Crustacea") >>

TaxonTable2 ==
  << TaxonRow("1", "kingdom", "Life"), TaxonRow("2", "kingdom", "Metazoa"),
     TaxonRow("118", "order", "Decapoda"), TaxonRow("372", "order", "Amphipoda") >>

TaxonTables == { TaxonTable1, TaxonTable2 }

InitDfs ==
  /\ CallIdle /\ ArgsIdle /\ NormIdle /\ DfsIdle /\ PhotosIdle /\ DwcIdle /\ BuildIdle

\* One call get_dfs(observations, df_taxon).
GetDfs ==
  \E l \in ObsLists, t \in TaxonTables :
    /\ dfs_call' = [made |-> TRUE, observations |-> l, df_taxon |-> t]
    /\ taxon_lookup' = IF l = <<>> THEN taxon_lookup ELSE LookupFor(taxon_lookup, t)
    /\ df_observations' = DfObservations(l, taxon_lookup, t)
    /\ df_photos' = DfPhotos(l)
    /\ UNCHANGED <<callVars, normVars, photoVars, dwcVars, buildVars>>

NextDfs == GetDfs

SpecDfs == InitDfs /\ [][NextDfs]_vars

\* The observation of the latest call that has the id i.
CalledObservation(i) ==
  dfs_call.observations[CHOOSE k \in DOMAIN dfs_call.observations :
                          dfs_call.observations[k].id = i]

\* C18: the rank columns of every row are those obtained from the row's
\* ancestry and the lookup table passed to that call, whatever tables earlier
\* calls were given; and the name a table gives the root id 1 is in no column.
C18_ExpansionUsesPassedTable ==
  dfs_call.made =>
    \A r \in DOMAIN df_observations.rows :
      LET row == df_observations.rows[r]
      IN /\ row.ranks = ExtractTaxonInfo(CalledObservation(row.id).taxon_ancestry,
                                         ToLookup(dfs_call.df_taxon))
         /\ \A l \in TaxonomicLevels : row.ranks[l] # Str(<<"Life">>)

\* C19: the column set of the observations table and that of the photos table
\* are the same whether the observation list is empty or not: those of the
\* tables get_dfs returns for the empty list.
C19_SameColumnsForEmptyInput ==
  dfs_call.made =>
    /\ df_observations.columns = DfObservations(<<>>, NoLookup, TaxonTable1).columns
    /\ df_photos.columns = DfPhotos(<<>>).columns
    /\ dfs_call.observations = <<>> =>
         df_observations.rows = <<>> /\ df_photos.rows = <<>>

\* ------------------------------------------------------------ download_photos calls
\* A photos table as get_dfs returns it: n rows sorted by observation id,
\* descending, so that the index labels (distinct) run n-1 .. 0.
PhotoTable(n) ==
  [i \in 1..n |-> [label |-> n - i,
                   path |-> Str(<<ToString(n - i + 1), "_", "119257", ".jpg">>)]]

\* The download directory before the call: missing or empty, or holding a file
\* of an earlier run.
DirectoriesBefore == { {}, {<<"minka_photos", "/", "9_119000.jpg">>} }

InitPhotos ==
  /\ CallIdle /\ ArgsIdle /\ NormIdle /\ DfsIdle /\ DwcIdle /\ BuildIdle
  /\ dl_pc = "idle"
  /\ \E n \in 0..MaxPhotoRows : dl_rows = PhotoTable(n)
  /\ dl_files \in DirectoriesBefore
  /\ dl_state = <<>>
  /\ dl_outcome = <<>>
  /\ successful_downloads = NoDownloads
  /\ abs_path = <<>>

\* Lines 998 and 1017-1022: the directory is created if it is missing (what it
\* holds stays), and every row is submitted to the pool.
DownloadPhotosCall ==
  /\ dl_pc = "idle"
  /\ dl_pc' = "pool"
  /\ dl_state' = [i \in DOMAIN dl_rows |-> "queued"]
  /\ dl_outcome' = [i \in DOMAIN dl_rows |-> "none"]
  /\ successful_downloads' = NoDownloads
  /\ UNCHANGED <<callVars, normVars, dfsVars, dwcVars, buildVars, dl_rows, dl_files, abs_path>>

Downloading == { i \in DOMAIN dl_state : dl_state[i] = "running" }

\* The pool of line 1018: a free worker takes the oldest queued row.
PhotoStart(i) ==
  /\ dl_pc = "pool"
  /\ dl_state[i] = "queued"
  /\ \A j \in 1..(i - 1) : dl_state[j] # "queued"
  /\ Cardinality(Downloading) < DOWNLOAD_WORKERS
  /\ dl_state' = [dl_state EXCEPT ![i] = "running"]
  /\ UNCHANGED <<callVars, normVars, dfsVars, dwcVars, buildVars, dl_pc, dl_rows, dl_files, dl_outcome,
                 successful_downloads, abs_path>>

\* download_single_photo (lines 1000-1014) ends: every exception is caught, the
\* future holds (row.name, success).
PhotoFinish(i) ==
  /\ dl_pc = "pool"
  /\ dl_state[i] = "running"
  /\ \E o \in DownloadOutcomes :
       /\ dl_outcome' = [dl_outcome EXCEPT ![i] = o]
       /\ dl_files' = IF o = "http_error" THEN dl_files
                      ELSE dl_files \cup {FilePath(dl_rows[i])}
  /\ dl_state' = [dl_state EXCEPT ![i] = "finished"]
  /\ UNCHANGED <<callVars, normVars, dfsVars, dwcVars, buildVars, dl_pc, dl_rows, successful_downloads,
                 abs_path>>

\* Lines 1024-1029: as_completed hands over a finished future, whichever it is,
\* and its flag is stored under the row's label.
PhotoRecord(i) ==
  /\ dl_pc = "pool"
  /\ dl_state[i] = "finished"
  /\ successful_downloads' =
       RecordDownload(successful_downloads, dl_rows[i].label, dl_outcome[i] = "ok")
  /\ dl_state' = [dl_state EXCEPT ![i] = "recorded"]
  /\ UNCHANGED <<callVars, normVars, dfsVars, dwcVars, buildVars, dl_pc, dl_rows, dl_files, dl_outcome,
                 abs_path>>

\* Lines 1031-1039, once every future was handed over: the abs_path column.
DownloadPhotosUpdate ==
  /\ dl_pc = "pool"
  /\ \A i \in DOMAIN dl_state : dl_state[i] = "recorded"
  /\ abs_path' = [i \in DOMAIN dl_rows |-> AbsPathOf(successful_downloads, dl_rows[i])]
  /\ dl_pc' = "done"
  /\ UNCHANGED <<callVars, normVars, dfsVars, dwcVars, buildVars, dl_rows, dl_files, dl_state, dl_outcome,
                 successful_downloads>>

NextPhotos ==
  \/ DownloadPhotosCall
  \/ \E i \in DOMAIN dl_state : PhotoStart(i)
  \/ \E i \in DOMAIN dl_state : PhotoFinish(i)
  \/ \E i \in DOMAIN dl_state : PhotoRecord(i)
  \/ DownloadPhotosUpdate

\* The main thread and the workers of the pool keep running.
SpecPhotos == InitPhotos /\ [][NextPhotos]_vars /\ WF_vars(NextPhotos)

\* C20: download_photos runs to completion whatever rows fail and however the
\* workers interleave, and then abs_path is set (to the absolute path of the
\* row's file, which was written) for exactly the rows whose download
\* succeeded and unset for exactly those whose download failed.
C20_AbsPathExactlyForSucceeded ==
  /\ [](dl_pc = "done" =>
          \A i \in DOMAIN dl_rows :
            /\ dl_outcome[i] = "ok" =>
                 abs_path[i] = AbsPath(dl_rows[i]) /\ FilePath(dl_rows[i]) \in dl_files
            /\ dl_outcome[i] # "ok" => abs_path[i] = Null)
  /\ <>(dl_pc = "done")

\* The call ended for a table one row of which failed while a row submitted
\* after it succeeded.
C20_Witness ==
  /\ dl_pc = "done"
  /\ \E i, j \in DOMAIN dl_rows :
       /\ i < j
       /\ dl_outcome[i] # "ok" /\ abs_path[i] = Null
       /\ dl_outcome[j] = "ok" /\ abs_path[j] = AbsPath(dl_rows[j])

\* ------------------------------------------------------------ C21
\* The files this call of download_photos wrote (line 1008: open(file_path, "wb")).
WrittenFiles ==
  { FilePath(dl_rows[i]) : i \in { j \in DOMAIN dl_outcome : dl_outcome[j] = "ok" } }

\* C21: after download_photos the directory holds only files written by this
\* call: no file that was there before the call remains unless the call wrote
\* it again.
C21_DirectoryRecreatedFresh ==
  dl_pc = "done" => dl_files \subseteq WrittenFiles

\* ------------------------------------------------------------ get_dwc_from_query calls
InitDwc ==
  /\ CallIdle /\ ArgsIdle /\ NormIdle /\ DfsIdle /\ PhotosIdle /\ BuildIdle
  /\ dwc_server \in DwcServers
  /\ dwc_pc = "idle"
  /\ dwc_page = 0
  /\ df_total = <<>>
  /\ dwc_result = NoDwcResult

\* Lines 1101-1113: the URL is built, df_total is empty and the loop starts at
\* page 1.
GetDwcFromQuery ==
  /\ dwc_pc = "idle"
  /\ dwc_pc' = "loop"
  /\ dwc_page' = 1
  /\ df_total' = <<>>
  /\ UNCHANGED <<callVars, normVars, dfsVars, photoVars, buildVars, dwc_server, dwc_result>>

\* Lines 1113-1139, one turn of "for i in range(1, 50)": page i is read and
\* its records are appended, or read_xml raises and the except branch returns.
\* When range(1, 50) is used up the function body ends, which returns None.
DwcReadPage ==
  /\ dwc_pc = "loop"
  /\ LET c == DwcPageLen(dwc_server, dwc_page)
         tb == Append(df_total, Seg(dwc_page, c))
     IN IF c = 0
        THEN /\ dwc_result' = DwcExcept(df_total)
             /\ dwc_pc' = "done"
             /\ UNCHANGED <<dwc_page, df_total>>
        ELSE /\ df_total' = tb
             /\ IF dwc_page + 1 < DWC_RANGE_END
                THEN dwc_page' = dwc_page + 1 /\ UNCHANGED <<dwc_pc, dwc_result>>
                ELSE /\ dwc_result' = DwcReturned(<<>>, TRUE, FALSE)
                     /\ dwc_pc' = "done"
                     /\ dwc_page' = dwc_page
  /\ UNCHANGED <<callVars, normVars, dfsVars, photoVars, buildVars, dwc_server>>

NextDwc == GetDwcFromQuery \/ DwcReadPage

\* The call keeps running: read_xml returns or raises.
SpecDwc == InitDwc /\ [][NextDwc]_vars /\ WF_vars(NextDwc)

\* The records of the pages 1..n of the endpoint, in page order.
DwcRecords(sv, n) == [i \in 1..n |-> Seg(i, DwcPageLen(sv, i))]

\* The pages that parse among those the loop can ask for.
DwcParsed(sv) == Min(sv.pages, DWC_RANGE_END - 1)

\* C22: get_dwc_from_query always ends, without raising; when pages 1..k-1
\* parse (holding at least one record) and page k fails, or when no page fails,
\* it returns the table of every record of the pages that parsed.
C22_ReturnsAccumulatedRecords ==
  /\ [](dwc_pc = "done" =>
          /\ dwc_result.kind = "returned"
          /\ DwcParsed(dwc_server) >= 1 =>
               /\ ~dwc_result.isNone
               /\ dwc_result.table = DwcRecords(dwc_server, DwcParsed(dwc_server)))
  /\ <>(dwc_pc = "done")

\* ------------------------------------------------------------ C23
\* The paging of a sequential _request run has ended: nothing more is requested.
PagingEnded ==
  pc \in {"merge_pages", "done"} /\ batch_urls = <<>> /\ first.kind = "http"

\* The last request of the run was answered with a page of records.
LastRequestSucceeded == FetchedPages # <<>> /\ lastFetch.kind \in {"none", "results"}

\* C23: without num_max and below the page ceiling, paging never ends after a
\* page of exactly 200 records: the page after it is requested, whatever
\* total_results the first page reported.
C23_FullPageContinues ==
  ( /\ PagingEnded
    /\ num_max = None
    /\ LastRequestSucceeded
    /\ Len(FetchedPages) < MAX_PAGES - 1 )
  => FetchedPages[Len(FetchedPages)].n < PER_PAGE

\* ------------------------------------------------------------ C24
\* The request of a page k >= 2 failed after the pages 1..k-1 had been fetched.
PageRequestFailed ==
  /\ batch_urls = <<>>
  /\ lastFetch.kind \in {"neterr", "status", "noresults"}
  /\ \A i \in DOMAIN all_results : all_results[i].src = i

\* C24: when the request of page k >= 2 fails after pages 1..k-1 succeeded,
\* get_obs does not raise, and the list it returns holds the records of each
\* of the pages 1..k-1 and nothing else.
C24_PageFailureKeepsEarlierPages ==
  PageRequestFailed =>
    /\ pc # "raised"
    /\ pc = "done" =>
         /\ Len(observations) = Len(all_results)
         /\ { observations[i] : i \in DOMAIN observations }
              = { all_results[i] : i \in DOMAIN all_results }

\* Page 4 failed with an error status after three full pages, and the call
\* returned their 600 records.
C24_Witness ==
  /\ PageRequestFailed
  /\ lastFetch.kind = "status"
  /\ pc = "done"
  /\ Len(all_results) = 3
  /\ TotalLen(observations) = 3 * PER_PAGE

\* ------------------------------------------------------------ C25
\* get_obs called _request on its one URL (line 177).
SequentialPathTaken == pc = "request" \/ first # NoResp

\* get_obs entered the branch of lines 178-263: boundary lookups and buckets.
BucketPathTaken ==
  \/ pc \in {"boundaries", "batches", "shutdown"}
  \/ pc \in {"done", "raised"} /\ first = NoResp

\* No boundary lookup was made and no bucket was created or fetched.
NoBucketWork ==
  /\ last_id = None /\ first_id = None
  /\ batch_urls = <<>> /\ bstate = <<>> /\ bres = <<>>
  /\ counter = 0

\* C25: once the probe has answered, get_obs is on the bucket path if and only
\* if total_results exceeds 10,000 and num_max is absent or exceeds 10,000;
\* otherwise it is on the sequential path and does no bucket work.
C25_BucketPathIffLarge ==
  total_obs.some =>
    IF total_obs.val > SMALL_LIMIT /\ (~num_max.some \/ num_max.val > SMALL_LIMIT)
    THEN BucketPathTaken /\ ~SequentialPathTaken
    ELSE SequentialPathTaken /\ ~BucketPathTaken /\ NoBucketWork

\* A call with num_max = 10001 and a total above 10,000 is fetching buckets.
C25_Witness ==
  /\ total_obs = Some(LargeTotal) /\ num_max = Some(SMALL_LIMIT + 1)
  /\ pc = "batches" /\ Running # {}

\* ------------------------------------------------------------ bucket generation
\* The id_above arguments explored: none, 0, a bucket edge, and an id inside a
\* bucket.
IdAboveInputs == { None, Some(0), Some(2 * BUCKET_IDS), Some(IdAboveValue) }

\* Calls of get_obs against the wide server, with or without a user filter, an
\* id_above and a num_max beyond the sequential limit.
InitBuckets ==
  /\ InitCall
  /\ server = "wide"
  /\ taxon = NoWord
  /\ introduced = "None"
  /\ id_above \in IdAboveInputs
  /\ \E others \in {{}, {"user"}} :
       supplied = others \cup (IF id_above.some THEN {"id_above"} ELSE {})
  /\ num_max \in {None, Some(SMALL_LIMIT + 1)}

\* get_obs up to the submission of the buckets.
NextBuckets == GetObsBuildUrl \/ GetObsProbe \/ GetObsBoundaries

SpecBuckets == InitBuckets /\ [][NextBuckets]_vars

\* The buckets the id span from the first id in scope to the last id implies.
ImpliedBuckets ==
  CeilDiv(last_id.val, BUCKET_IDS) + 1
    - (IF Truthy(first_id) THEN first_id.val ELSE 0) \div BUCKET_IDS

\* C26: whatever the boundary ids, at most 20 buckets are created and
\* submitted to the pool.
C26_AtMostTwentyBuckets ==
  /\ Len(batch_urls) <= MAX_BATCHES
  /\ Len(bstate) <= MAX_BATCHES
  /\ Len(bstate) = Len(batch_urls)

\* Boundary ids whose span implies more than 20 buckets yielded exactly 20.
C26_Witness ==
  /\ pc = "batches"
  /\ Truthy(last_id)
  /\ ImpliedBuckets > MAX_BATCHES
  /\ Len(batch_urls) = MAX_BATCHES
  /\ Len(bstate) = MAX_BATCHES

\* ------------------------------------------------------------ C27
\* The id x passes the filters id_above and id_below of bucket b, both
\* exclusive.
InBucket(x, b) == b.above < x /\ x < b.below

\* The first and the last id of every bucket: the ids at which two ranges
\* could overlap or leave a gap.
EdgeIds ==
  UNION { {batch_urls[i].above + 1, batch_urls[i].below - 1} : i \in DOMAIN batch_urls }

\* C27: every bucket admits exactly 10,000 ids, each bucket starts at the id
\* after the last id of the bucket before it, and every id from the first
\* bucket's first id to the last bucket's last id is admitted by exactly one
\* bucket.
C27_BucketsPartitionIds ==
  /\ \A i \in DOMAIN batch_urls :
       /\ batch_urls[i].below - batch_urls[i].above - 1 = BUCKET_IDS
       /\ i < Len(batch_urls) => batch_urls[i + 1].above + 1 = batch_urls[i].below
  /\ \A x \in EdgeIds :
       Cardinality({ i \in DOMAIN batch_urls : InBucket(x, batch_urls[i]) }) = 1

\* Several buckets were generated, from a first id that is not at a bucket edge.
C27_Witness ==
  /\ pc = "batches"
  /\ Len(batch_urls) >= 3
  /\ first_id = Some(BUCKET_IDS + 1)
  /\ InBucket(first_id.val, batch_urls[1])

\* ------------------------------------------------------------ C28
\* Line 217: url.replace(f"&id_above={id_above}", "") when id_above is truthy.
\* The text to replace starts with "&", so the parameter is removed unless it is
\* the first one of the query string.
BaseUrlClean(u, ida) ==
  IF Truthy(ida) /\ u # <<>>
  THEN <<Head(u)>> \o SelectSeq(Tail(u), LAMBDA k : k # "id_above")
  ELSE u

\* Line 222: the parameters of the request of bucket b.
BucketParams(u, ida, b) == BaseUrlClean(u, ida) \o <<"id_above", "id_below">>

\* The id_above values the request of bucket b carries: the bucket's own, and
\* the caller's when it was left in the URL.  Which of two the server obeys is
\* the server's choice.
BucketLowerBounds(u, ida, b) ==
  {b.above}
  \cup (IF \E i \in DOMAIN BaseUrlClean(u, ida) : BaseUrlClean(u, ida)[i] = "id_above"
        THEN {ida.val} ELSE {})

\* C28: with an id_above given by the caller, no bucket request admits an id
\* at or below it: every lower bound a bucket request carries is at least the
\* caller's.
C28_IdAboveNeverWidened ==
  id_above.some =>
    \A i \in DOMAIN batch_urls :
      \A lb \in BucketLowerBounds(url, id_above, batch_urls[i]) : lb >= id_above.val

\* ------------------------------------------------------------ _build_observations calls
\* The lengths of the raw lists: empty, one record, the threshold of the worker
\* pool, and lists beyond it.
BuildLengths == {0, 1, BUILD_THRESHOLD, BUILD_THRESHOLD + 1}

\* Where the records that cannot be normalized are: nowhere, one at either end
\* of the list, or two neighbours that fail differently.
BadShapes(n) ==
  { <<>> }
  \cup { [i \in {p} |-> sh] : p \in {1, n} \cap 1..n, sh \in {"badtaxon", "noid"} }
  \cup { [i \in {n - 1, n} |-> IF i = n THEN a ELSE b] :
           a \in (IF n >= 2 THEN {"badtaxon", "noid"} ELSE {}),
           b \in {"badtaxon", "noid"} }

InitBuild ==
  /\ CallIdle /\ ArgsIdle /\ NormIdle /\ DfsIdle /\ PhotosIdle /\ DwcIdle
  /\ \E n \in BuildLengths : \E sh \in BadShapes(n) : bo_list = RawList(n, sh)
  /\ bo_pc = "idle"
  /\ bo_started = 0
  /\ bo_unfinished = {}
  /\ bo_out = <<>>
  /\ bo_result = NoBuildResult

\* Lines 477-479 and 484: the list goes to the worker pool when it holds more
\* than 100 records, else it is normalized in place.
BuildObservationsCall ==
  /\ bo_pc = "idle"
  /\ bo_pc' = IF bo_list.n > BUILD_THRESHOLD THEN "pool"
              ELSE IF bo_list.n = 0 THEN "done" ELSE "loop"
  /\ bo_result' = IF bo_list.n = 0 THEN BuildReturned(<<>>) ELSE bo_result
  /\ UNCHANGED <<callVars, normVars, dfsVars, photoVars, dwcVars, bo_list, bo_started,
                 bo_unfinished, bo_out>>

\* The call ends with the record at position i taken: its exception leaves the
\* function, or it is appended, and after the last record the list is returned.
TakeRecord(i) ==
  LET r == ProcessObservationData(RawRecord(bo_list, i))
      out == Append(bo_out, i)
  IN IF r.kind = "raised"
     THEN /\ bo_result' = BuildRaised(r.err)
          /\ bo_pc' = "done"
          /\ bo_out' = bo_out
     ELSE /\ bo_out' = out
          /\ IF Len(out) = bo_list.n
             THEN /\ bo_result' = BuildReturned(NormalizedAt(bo_list, out))
                  /\ bo_pc' = "done"
             ELSE UNCHANGED <<bo_result, bo_pc>>

\* Line 484: one turn of the list comprehension.
BuildSequentialStep ==
  /\ bo_pc = "loop"
  /\ TakeRecord(Len(bo_out) + 1)
  /\ UNCHANGED <<callVars, normVars, dfsVars, photoVars, dwcVars, bo_list, bo_started,
                 bo_unfinished>>

\* The main thread, which waits in list() for the next result, takes a result
\* that is there before a worker moves on.
NothingToCollect == NextToCollect(bo_out, (1..bo_started) \ bo_unfinished) = {}

\* Line 479: a free worker of the 4 takes the next record of the list.
BuildWorkerStart ==
  /\ bo_pc = "pool"
  /\ NothingToCollect
  /\ bo_started < bo_list.n
  /\ Cardinality(bo_unfinished) < BUILD_WORKERS
  /\ \A u \in bo_unfinished : bo_started + 1 - u <= MaxOvertake
  /\ bo_started' = bo_started + 1
  /\ bo_unfinished' = bo_unfinished \cup {bo_started + 1}
  /\ UNCHANGED <<callVars, normVars, dfsVars, photoVars, dwcVars, bo_list, bo_pc, bo_out,
                 bo_result>>

\* A worker ends the normalization of record i, whichever record that is.
BuildWorkerFinish(i) ==
  /\ bo_pc = "pool"
  /\ NothingToCollect
  /\ i \in bo_unfinished
  /\ bo_unfinished' = bo_unfinished \ {i}
  /\ UNCHANGED <<callVars, normVars, dfsVars, photoVars, dwcVars, bo_list, bo_pc, bo_started,
                 bo_out, bo_result>>

\* Lines 480-482: list() takes the next result of executor.map.
BuildCollect ==
  /\ bo_pc = "pool"
  /\ \E i \in NextToCollect(bo_out, (1..bo_started) \ bo_unfinished) : TakeRecord(i)
  /\ UNCHANGED <<callVars, normVars, dfsVars, photoVars, dwcVars, bo_list, bo_started,
                 bo_unfinished>>

NextBuild ==
  \/ BuildObservationsCall
  \/ BuildSequentialStep
  \/ BuildWorkerStart
  \/ \E i \in bo_unfinished : BuildWorkerFinish(i)
  \/ BuildCollect

SpecBuild == InitBuild /\ [][NextBuild]_vars

\* Normalizing the records 1..n of the list one by one in list order: the
\* exception of the first record that raises, else the list of the results.
FirstFailing(l) ==
  { i \in 1..l.n : /\ ProcessObservationData(RawRecord(l, i)).kind = "raised"
                   /\ \A j \in 1..(i - 1) :
                        ProcessObservationData(RawRecord(l, j)).kind # "raised" }

SinglyInOrder(l) ==
  IF FirstFailing(l) # {}
  THEN BuildRaised(ProcessObservationData(RawRecord(l, CHOOSE i \in FirstFailing(l) : TRUE)).err)
  ELSE BuildReturned([i \in 1..l.n |-> ProcessObservationData(RawRecord(l, i)).obs])

\* C29: for lists at or below the threshold and above it, and however the
\* workers are scheduled, the records are collected in list order and the call
\* ends as normalizing the records one by one in list order ends.
C29_BuildEqualsSingly ==
  /\ bo_out = [j \in 1..Len(bo_out) |-> j]
  /\ bo_pc = "done" => bo_result = SinglyInOrder(bo_list)

\* A list above the threshold is in the pool, records have been collected, and a
\* later record has been normalized while an earlier one is still with its
\* worker.
C29_Witness ==
  /\ bo_pc = "pool"
  /\ bo_list.n > BUILD_THRESHOLD
  /\ \E u \in bo_unfinished : \E i \in 1..bo_started : i > u /\ i \notin bo_unfinished
  /\ Len(bo_out) >= 1

\* ------------------------------------------------------------ sequential runs
\* Calls of get_obs without filter against the flaky server.
InitFlaky ==
  /\ InitCall
  /\ server = "flaky"
  /\ supplied = {}
  /\ introduced = "None"
  /\ id_above = None
  /\ taxon = NoWord
  /\ num_max \in {None, Some(600)}

NextFlaky ==
  \/ GetObsBuildUrl
  \/ GetObsProbe
  \/ RequestFirst
  \/ RequestPage
  \/ RequestMergePage

\* Every HTTP call returns or raises, and the threads of the call keep running.
SpecFlaky == InitFlaky /\ [][NextFlaky]_vars /\ WF_vars(NextFlaky)

\* The page requests _request has issued: the requests of the call but the probe.
PageRequests == IF first = NoResp THEN 0 ELSE nreq - 1

\* C30: a sequential _request run never issues more than 50 page requests, and
\* once called it ends, returning or raising, whatever the server answers.
C30_AtMostFiftyRequestsThenEnds ==
  /\ [](PageRequests <= MAX_PAGES)
  /\ [](pc = "request" => <>(pc \in {"done", "raised"}))

\* The run issued 50 page requests, each answered with a full page, and ended.
C30_Witness ==
  /\ pc = "done"
  /\ PageRequests = MAX_PAGES
  /\ Len(all_results) = MAX_PAGES
  /\ \A i \in DOMAIN all_results : all_results[i].n = PER_PAGE

====
